---- MODULE Spec2Model ----
(***************************************************************************)
(* Model of main.py: the Discord -> Telegram mirror.                       *)
(*                                                                         *)
(* One instance of the script is a process p with local state proc[p]:     *)
(* its position in main()/process_channel() and the locals of these        *)
(* functions. The history file (upload_history.json), the clock and the     *)
(* configuration are shared. A history is modelled by its set of keys: the  *)
(* values (the time of recording) are written and never read by the code.   *)
(***************************************************************************)
EXTENDS Integers, Sequences, FiniteSets, TLC

VARIABLES
    disk,     \* contents of TRACKING_FILE
    now,      \* the wall clock, in ticks
    tokens,   \* DISCORD_BOT_TOKEN / TELEGRAM_BOT_TOKEN are set (truthy)
    runs,     \* number of invocations of main() so far
    proc,     \* proc[p]: control point and locals of instance p
    obs,      \* what has been sent and persisted so far (observation only)
    filt      \* one call of filter_content: its arguments and its result

vars == <<disk, now, tokens, runs, proc, obs, filt>>

----------------------------------------------------------------------------
(* Bounds *)

MaxRuns == 2        \* invocations of main()
MaxFetch == 2       \* items in one fetched page (the code asks for 50)
MaxTime == 5        \* last tick of the clock
TicksPerHour == 2   \* clock resolution
MaxAttachments == 3 \* attachments of the message of SpecOneMessage
MaxText == 4        \* characters of the text given to filter_content
MaxWords == 2       \* phrases in FILTER_WORDS
MaxWordLen == 2     \* characters of a phrase

----------------------------------------------------------------------------
(* Configuration (config.json) *)

CHANNEL_MAPPING == <<"A", "B">>

MESSAGE_WINDOW_HOURS == 1

StartTime == 3

----------------------------------------------------------------------------
(* The messages the source channels can return *)

Img(u) == [url |-> u, content_type |-> "image/png"]

Vid(u) == [url |-> u, content_type |-> "video/mp4"]

Iso(t) == [iso |-> TRUE, t |-> t]

NotIso == [iso |-> FALSE, t |-> 0]

Msg(ch, id, ts, text, atts) ==
    [channel |-> ch, keys |-> {"id", "timestamp"}, id |-> id,
     timestamp |-> ts, text |-> text, attachments |-> atts]

Pool ==
    { Msg("A", "a1", Iso(2), "x", <<Img("u1")>>),
      Msg("A", "a2", Iso(3), "y", <<Img("u1"), Img("u2")>>),
      Msg("A", "a3", Iso(3), "", <<Vid("v1")>>),
      Msg("A", "a4", Iso(1), "old", <<>>),
      Msg("B", "b1", Iso(3), "z", <<Img("u1"), Img("u3"), Img("u4")>>),
      Msg("B", "b2", NotIso, "w", <<>>),
      Msg("B", "b3", Iso(2), "t", <<Img("u5"), Vid("v2"), Img("u6")>>),
      [Msg("B", "b4", Iso(3), "n", <<>>) EXCEPT !.keys = {"timestamp"}],
      [Msg("B", "b5", Iso(3), "n", <<>>) EXCEPT !.keys = {"id"}] }

InitialHistories == { {}, {"u1"}, {"a2", "u1", "u2"} }

----------------------------------------------------------------------------
(* The history file *)

File(keys) == [valid |-> TRUE, keys |-> keys]

\* no file, or a file that is not a JSON document
Unreadable == [valid |-> FALSE, keys |-> {}]

\* variant: a load that never finds the file
LoadAlwaysEmpty(file) == {}

load_upload_history(file) == IF file.valid THEN file.keys ELSE {}

----------------------------------------------------------------------------
(* filter_content. A text is a sequence of characters. *)

Lower(c) == IF c = "A" THEN "a" ELSE IF c = "B" THEN "b" ELSE c

\* the pattern re.escape(word) matches at position i of text, ignoring case
MatchAt(text, word, i) ==
    /\ i + Len(word) - 1 <= Len(text)
    /\ \A k \in 1..Len(word) : Lower(text[i + k - 1]) = Lower(word[k])

\* re.sub(re.escape(word), '', text, flags=re.IGNORECASE) from position i on:
\* one scan from left to right over non-overlapping matches. The empty
\* pattern matches everywhere and replaces nothing.
RECURSIVE SubFrom(_, _, _)
SubFrom(text, word, i) ==
    IF i > Len(text) THEN <<>>
    ELSE IF word # <<>> /\ MatchAt(text, word, i)
         THEN SubFrom(text, word, i + Len(word))
         ELSE <<text[i]>> \o SubFrom(text, word, i + 1)

RECURSIVE Strip(_)
Strip(text) ==
    IF text = <<>> THEN <<>>
    ELSE IF text[1] = " " THEN Strip(SubSeq(text, 2, Len(text)))
    ELSE IF text[Len(text)] = " " THEN Strip(SubSeq(text, 1, Len(text) - 1))
    ELSE text

\* for word in FILTER_WORDS: content = re.sub(...), from the k-th word on
RECURSIVE SubAll(_, _, _)
SubAll(content, words, k) ==
    IF k > Len(words) THEN content
    ELSE SubAll(SubFrom(content, words[k], 1), words, k + 1)

filter_content(content, words) ==
    IF content = <<>> THEN <<>> ELSE Strip(SubAll(content, words, 1))

NoFilterCall == [content |-> <<>>, words |-> <<>>, result |-> <<>>, done |-> FALSE]

----------------------------------------------------------------------------
(* Window filter *)

Window == MESSAGE_WINDOW_HOURS * TicksPerHour

\* variant: the comparison written as <=
WithinWindowInclusive(message_timestamp, clock) ==
    IF ~message_timestamp.iso
    THEN FALSE
    ELSE (clock - message_timestamp.t) <= Window

is_within_window(message_timestamp, clock) ==
    IF ~message_timestamp.iso
    THEN FALSE
    ELSE (clock - message_timestamp.t) < Window

----------------------------------------------------------------------------
(* Fetch: sorted(response.json(), key=timestamp), a stable sort *)

RECURSIVE InsertByTimestamp(_, _)
InsertByTimestamp(sorted, m) ==
    IF sorted = <<>> THEN <<m>>
    ELSE IF m.timestamp.t < sorted[Len(sorted)].timestamp.t
         THEN InsertByTimestamp(SubSeq(sorted, 1, Len(sorted) - 1), m)
                  \o <<sorted[Len(sorted)]>>
         ELSE sorted \o <<m>>

\* variant: the page used in the order of the response
Unsorted(s) == s

RECURSIVE SortByTimestamp(_)
SortByTimestamp(s) ==
    IF s = <<>> THEN <<>>
    ELSE InsertByTimestamp(SortByTimestamp(SubSeq(s, 1, Len(s) - 1)), s[Len(s)])

\* the pages the source can answer with for a channel: distinct messages of
\* that channel, in any order
Pages(ch) ==
    { s \in UNION { [1..n -> {m \in Pool : m.channel = ch}] : n \in 0..MaxFetch } :
        \A i, j \in 1..Len(s) : i # j => s[i] # s[j] }

----------------------------------------------------------------------------
(* Forwarder *)

Request(method, media, text) == [method |-> method, media |-> media, text |-> text]

\* variant: the loop without the history lookup
RECURSIVE MediaFromAll(_, _, _, _)
MediaFromAll(history, text_content, image_urls, i) ==
    IF i > Len(image_urls) THEN <<>>
    ELSE <<[media |-> image_urls[i],
            caption |-> IF i = 1 /\ text_content # ""
                        THEN <<text_content>> ELSE <<>>]>>
             \o MediaFromAll(history, text_content, image_urls, i + 1)

\* the loop that builds `media`, from position i of image_urls on; position 1
\* is Python's index 0
RECURSIVE MediaFrom(_, _, _, _)
MediaFrom(history, text_content, image_urls, i) ==
    IF i > Len(image_urls) THEN <<>>
    ELSE IF image_urls[i] \in history
         THEN MediaFrom(history, text_content, image_urls, i + 1)
         ELSE <<[media |-> image_urls[i],
                 caption |-> IF i = 1 /\ text_content # ""
                             THEN <<text_content>> ELSE <<>>]>>
                  \o MediaFrom(history, text_content, image_urls, i + 1)

\* variant: the text message posted also for an empty text
OutboundEmptyText(media, text_content) ==
    IF Len(media) > 1
    THEN <<Request("sendMediaGroup", media, "")>>
    ELSE IF Len(media) = 1
         THEN <<Request("sendPhoto", <<media[1]>>, "")>>
         ELSE <<Request("sendMessage", <<>>, text_content)>>

\* variant: the album branch taken from one image on
OutboundAlbumForOne(media, text_content) ==
    IF Len(media) >= 1
    THEN <<Request("sendMediaGroup", media, "")>>
    ELSE IF text_content # ""
         THEN <<Request("sendMessage", <<>>, text_content)>>
         ELSE <<>>

\* the request the forwarder posts, as a sequence of at most one element
Outbound(media, text_content) ==
    IF Len(media) > 1
    THEN <<Request("sendMediaGroup", media, "")>>
    ELSE IF Len(media) = 1
         THEN <<Request("sendPhoto", <<media[1]>>, "")>>
         ELSE IF text_content # ""
              THEN <<Request("sendMessage", <<>>, text_content)>>
              ELSE <<>>

\* net: what happens to the request. "ok": answered 2xx; "rejected": answered
\* with an error status, which requests.post returns like any other response;
\* "exception": requests raises a RequestException
NetOutcomes == {"ok", "rejected", "exception"}

send_to_telegram(file, text_content, image_urls, net) ==
    LET history == load_upload_history(file)
        media == MediaFrom(history, text_content, image_urls, 1)
        posted == Outbound(media, text_content)
    IN  IF posted = <<>>
        THEN [posted |-> <<>>, success |-> FALSE, sent_items |-> <<>>]
        ELSE IF net = "exception"
             THEN [posted |-> posted, success |-> FALSE, sent_items |-> <<>>]
             ELSE [posted |-> posted, success |-> TRUE, sent_items |-> image_urls]

----------------------------------------------------------------------------
(* process_channel: building the inputs of the forwarder *)

\* 'image' in content_type, over the content types of the pool
ContainsImage(content_type) == content_type \in {"image/png", "image/jpeg"}

RECURSIVE ImageUrls(_)
ImageUrls(attachments) ==
    IF attachments = <<>> THEN <<>>
    ELSE LET a == attachments[1]
             rest == ImageUrls(SubSeq(attachments, 2, Len(attachments)))
         IN  IF ContainsImage(a.content_type)
             THEN <<a.url>> \o rest
             ELSE rest

Range(s) == { s[k] : k \in 1..Len(s) }

----------------------------------------------------------------------------
(* Instances *)

\* the instances of the script that can run on the same history file
Procs == {1, 2}

NoPage == [none |-> FALSE, items |-> <<>>]

\* an instance that is not running: the locals hold nothing. exit tells how
\* its last run ended and stays until the next run ends
Idle(exit, okPrev) ==
    [pc |-> "idle", exit |-> exit, chan |-> 0, messages |-> NoPage, i |-> 0,
     history |-> {}, full_text |-> "", image_urls |-> <<>>,
     success |-> FALSE, sent_items |-> <<>>, posted |-> <<>>, net |-> "none",
     issued |-> {}, okCur |-> {}, okPrev |-> okPrev, touched |-> {},
     failed |-> {}]

\* an instance that is never started
Off == [Idle("none", {}) EXCEPT !.pc = "off"]

\* the instance stops: main() returns, an exception leaves it, or it is killed
Stop(r, how) ==
    [Idle(how, r.okPrev) EXCEPT !.issued = r.issued, !.okCur = r.okCur,
                                !.touched = r.touched, !.failed = r.failed]

\* the locals of one loop iteration, dead once the iteration is over
EndIteration(r) ==
    [r EXCEPT !.full_text = "", !.image_urls = <<>>, !.success = FALSE,
              !.sent_items = <<>>, !.posted = <<>>, !.net = "none"]

Message(p) == proc[p].messages.items[proc[p].i]

InLoop(p) == proc[p].i \in 1..Len(proc[p].messages.items)

Init ==
    /\ disk \in {Unreadable} \cup { File(h) : h \in InitialHistories }
    /\ now = StartTime
    /\ tokens \in [discord : BOOLEAN, telegram : BOOLEAN]
    /\ runs = 0
    /\ proc = [p \in Procs |-> IF p = 1 THEN Idle("none", {}) ELSE Off]
    /\ obs = [okSent |-> {}, persisted |-> load_upload_history(disk),
              dirtyStop |-> FALSE]
    /\ filt = NoFilterCall

----------------------------------------------------------------------------
(* main() and process_channel(), one step at a time *)

Set(p, r) == proc' = [proc EXCEPT ![p] = r]

\* variant: any() in place of all()
TokensSetAny(t) == t.discord \/ t.telegram

\* all([DISCORD_BOT_TOKEN, TELEGRAM_BOT_TOKEN])
TokensSet(t) == t.discord /\ t.telegram

\* main(): the token check, then the first mapping
StartMain(p) ==
    /\ proc[p].pc = "idle"
    /\ runs < MaxRuns
    /\ runs' = runs + 1
    /\ now' \in now..MaxTime
    /\ LET okPrev == IF proc[p].exit = "finished" THEN proc[p].okCur ELSE {}
       IN  IF ~TokensSet(tokens)
           THEN Set(p, Idle("fatal", okPrev))
           ELSE IF Len(CHANNEL_MAPPING) = 0
                THEN Set(p, Idle("finished", okPrev))
                ELSE Set(p, [Idle(proc[p].exit, okPrev) EXCEPT
                               !.pc = "fetch", !.chan = 1])
    /\ UNCHANGED <<filt, disk, tokens, obs>>

\* messages = get_discord_messages(discord_channel)
FetchFails(p) ==
    /\ proc[p].pc = "fetch"
    /\ Set(p, [proc[p] EXCEPT !.pc = "check",
                              !.messages = [none |-> TRUE, items |-> <<>>],
                              !.touched = @ \cup {"fetch"},
                              !.failed = @ \cup {proc[p].chan}])
    /\ UNCHANGED <<filt, disk, now, tokens, runs, obs>>

FetchReturns(p) ==
    /\ proc[p].pc = "fetch"
    /\ \E page \in Pages(CHANNEL_MAPPING[proc[p].chan]) :
          /\ \A k \in 1..Len(page) : "timestamp" \in page[k].keys
          /\ Set(p, [proc[p] EXCEPT !.pc = "check",
                                    !.messages = [none |-> FALSE,
                                                  items |-> SortByTimestamp(page)],
                                    !.touched = @ \cup {"fetch"}])
    /\ UNCHANGED <<filt, disk, now, tokens, runs, obs>>

\* an item without 'timestamp': the sort key raises KeyError, which
\* get_discord_messages does not catch
FetchRaises(p) ==
    /\ proc[p].pc = "fetch"
    /\ \E page \in Pages(CHANNEL_MAPPING[proc[p].chan]) :
          \E k \in 1..Len(page) : "timestamp" \notin page[k].keys
    /\ Set(p, Stop([proc[p] EXCEPT !.touched = @ \cup {"fetch"}], "raised"))
    /\ UNCHANGED <<filt, disk, now, tokens, runs, obs>>

\* variant: a failed fetch ends the run
CheckMessagesAbort(p) ==
    /\ proc[p].pc = "check"
    /\ IF proc[p].messages.none
       THEN Set(p, Stop(proc[p], "raised"))
       ELSE IF proc[p].messages.items = <<>>
            THEN Set(p, [proc[p] EXCEPT !.pc = "next"])
            ELSE Set(p, [proc[p] EXCEPT !.pc = "load"])
    /\ UNCHANGED <<filt, disk, now, tokens, runs, obs>>

\* if not messages: return
CheckMessages(p) ==
    /\ proc[p].pc = "check"
    /\ IF proc[p].messages.none \/ proc[p].messages.items = <<>>
       THEN Set(p, [proc[p] EXCEPT !.pc = "next"])
       ELSE Set(p, [proc[p] EXCEPT !.pc = "load"])
    /\ UNCHANGED <<filt, disk, now, tokens, runs, obs>>

\* variant: the loop starts from an empty history
LoadHistoryEmpty(p) ==
    /\ proc[p].pc = "load"
    /\ Set(p, [proc[p] EXCEPT !.pc = "loop", !.i = 1, !.history = {},
                              !.touched = @ \cup {"load"}])
    /\ UNCHANGED <<filt, disk, now, tokens, runs, obs>>

\* history = load_upload_history(); processed_count = 0
LoadHistory(p) ==
    /\ proc[p].pc = "load"
    /\ Set(p, [proc[p] EXCEPT !.pc = "loop", !.i = 1,
                              !.history = load_upload_history(disk),
                              !.touched = @ \cup {"load"}])
    /\ UNCHANGED <<filt, disk, now, tokens, runs, obs>>

\* variant: the test without the history lookup
SkipsWindowOnly(history, message, clock) ==
    ~is_within_window(message.timestamp, clock)

\* the test that skips a message
Skips(history, message, clock) ==
    message.id \in history \/ ~is_within_window(message.timestamp, clock)

\* for message in messages: the dedup and window test, then text and images
LoopHead(p) ==
    /\ proc[p].pc = "loop"
    /\ IF ~InLoop(p)
       THEN Set(p, [proc[p] EXCEPT !.pc = "next"])
       ELSE LET message == Message(p)
            IN  IF "id" \notin message.keys
                THEN Set(p, Stop(proc[p], "raised"))
                ELSE IF Skips(proc[p].history, message, now)
                     THEN Set(p, [proc[p] EXCEPT !.i = @ + 1])
                     ELSE Set(p, [proc[p] EXCEPT
                                    !.pc = "send",
                                    !.full_text = message.text,
                                    !.image_urls = ImageUrls(message.attachments)])
    /\ UNCHANGED <<filt, disk, now, tokens, runs, obs>>

\* success, sent_items = send_to_telegram(...)
Send(p) ==
    /\ proc[p].pc = "send"
    /\ \E net \in NetOutcomes :
          LET r == send_to_telegram(disk, proc[p].full_text, proc[p].image_urls, net)
              id == Message(p).id
          IN  /\ Set(p, [proc[p] EXCEPT
                           !.pc = "record",
                           !.success = r.success,
                           !.sent_items = r.sent_items,
                           !.posted = r.posted,
                           !.net = IF r.posted = <<>> THEN "none" ELSE net,
                           !.issued = IF r.posted = <<>> THEN @ ELSE @ \cup {id},
                           !.okCur = IF r.success THEN @ \cup {id} ELSE @,
                           !.touched = @ \cup {"load"} \cup
                                       (IF r.posted = <<>> THEN {} ELSE {"send"})])
              /\ obs' = [obs EXCEPT !.okSent = IF r.success THEN @ \cup {id} ELSE @]
    /\ UNCHANGED <<filt, disk, now, tokens, runs>>

\* variant: the record started afresh on success
RecordedFresh(history, success, message_id, sent_items) ==
    IF success THEN {message_id} \cup Range(sent_items) ELSE history

\* variant: the record made whatever the result of the send
RecordedRegardless(history, success, message_id, sent_items) ==
    history \cup {message_id} \cup Range(sent_items)

\* variant: the message id left out of the record
RecordedUrlsOnly(history, success, message_id, sent_items) ==
    IF success THEN history \cup Range(sent_items) ELSE history

\* the keys of history after `if success:`
Recorded(history, success, message_id, sent_items) ==
    IF success THEN history \cup {message_id} \cup Range(sent_items) ELSE history

Record(p) ==
    /\ proc[p].pc = "record"
    /\ Set(p, [proc[p] EXCEPT
                 !.pc = "save",
                 !.history = Recorded(@, proc[p].success, Message(p).id,
                                      proc[p].sent_items)])
    /\ UNCHANGED <<filt, disk, now, tokens, runs, obs>>

\* save_upload_history: open(TRACKING_FILE, 'w') truncates the file
SaveOpen(p) ==
    /\ proc[p].pc = "save"
    /\ disk' = Unreadable
    /\ Set(p, [proc[p] EXCEPT !.pc = "dump", !.touched = @ \cup {"save"}])
    /\ UNCHANGED <<filt, now, tokens, runs, obs>>

\* open() raises OSError: the file is as it was, the exception leaves main()
SaveOpenRaises(p) ==
    /\ proc[p].pc = "save"
    /\ Set(p, Stop(proc[p], "raised"))
    /\ obs' = [obs EXCEPT !.dirtyStop = TRUE]
    /\ UNCHANGED <<filt, disk, now, tokens, runs>>

\* variant: an empty dictionary is dumped
DumpedNothing(history) == File({})

\* what json.dump leaves in the file
Dumped(history) == File(history)

\* save_upload_history: json.dump(history, f) and the close of the file
SaveDump(p) ==
    /\ proc[p].pc = "dump"
    /\ disk' = Dumped(proc[p].history)
    /\ Set(p, [proc[p] EXCEPT !.pc = "sleep"])
    /\ obs' = [obs EXCEPT !.persisted = @ \cup load_upload_history(disk')]
    /\ UNCHANGED <<filt, now, tokens, runs>>

\* the write raises OSError: the file stays cut short
SaveDumpRaises(p) ==
    /\ proc[p].pc = "dump"
    /\ Set(p, Stop(proc[p], "raised"))
    /\ obs' = [obs EXCEPT !.dirtyStop = TRUE]
    /\ UNCHANGED <<filt, disk, now, tokens, runs>>

\* time.sleep(REQUEST_DELAY), then the next message
Sleep(p) ==
    /\ proc[p].pc = "sleep"
    /\ now' \in {now, IF now < MaxTime THEN now + 1 ELSE now}
    /\ Set(p, [EndIteration(proc[p]) EXCEPT !.pc = "loop", !.i = @ + 1])
    /\ UNCHANGED <<filt, disk, tokens, runs, obs>>

\* process_channel returns: the next mapping, or the end of main()
NextMapping(p) ==
    /\ proc[p].pc = "next"
    /\ IF proc[p].chan < Len(CHANNEL_MAPPING)
       THEN Set(p, [proc[p] EXCEPT !.pc = "fetch", !.chan = @ + 1,
                                   !.messages = NoPage, !.i = 0, !.history = {}])
       ELSE Set(p, Stop(proc[p], "finished"))
    /\ UNCHANGED <<filt, disk, now, tokens, runs, obs>>

\* the process is stopped from outside, anywhere inside process_channel
Kill(p) ==
    /\ proc[p].pc \notin {"idle", "off"}
    /\ Set(p, Stop(proc[p], "killed"))
    /\ obs' = [obs EXCEPT !.dirtyStop = @ \/ proc[p].pc \in {"record", "save", "dump"}]
    /\ UNCHANGED <<filt, disk, now, tokens, runs>>

Next ==
    \E p \in Procs :
        \/ StartMain(p)
        \/ FetchFails(p)
        \/ FetchReturns(p)
        \/ FetchRaises(p)
        \/ CheckMessages(p)
        \/ LoadHistory(p)
        \/ LoopHead(p)
        \/ Send(p)
        \/ Record(p)
        \/ SaveOpen(p)
        \/ SaveOpenRaises(p)
        \/ SaveDump(p)
        \/ SaveDumpRaises(p)
        \/ Sleep(p)
        \/ NextMapping(p)

Spec == Init /\ [][Next]_vars

NextCrash ==
    \/ Next
    \/ \E p \in Procs : Kill(p)

SpecCrash == Init /\ [][NextCrash]_vars

----------------------------------------------------------------------------
(* One message through the loop of process_channel, for every text, list of
   attachments, timestamp, clock and history file *)

OneMessages ==
    { Msg("B", "m", ts, text, atts) :
        ts \in { Iso(t) : t \in 0..MaxTime } \cup {NotIso},
        text \in {"", "y"},
        atts \in UNION { [1..n -> {Img("u1"), Img("u2"), Vid("v1")}] :
                           n \in 0..MaxAttachments } }

InitOneMessage ==
    /\ disk \in {Unreadable} \cup { File(h) : h \in SUBSET {"m", "u1", "u2"} }
    /\ now \in StartTime..MaxTime
    /\ tokens = [discord |-> TRUE, telegram |-> TRUE]
    /\ runs = 1
    /\ \E m \in OneMessages :
          proc = [p \in Procs |->
                    IF p = 1
                    THEN [Idle("none", {}) EXCEPT
                            !.pc = "loop", !.chan = Len(CHANNEL_MAPPING),
                            !.messages = [none |-> FALSE, items |-> <<m>>],
                            !.i = 1, !.history = load_upload_history(disk),
                            !.touched = {"fetch", "load"}]
                    ELSE Off]
    /\ obs = [okSent |-> {}, persisted |-> load_upload_history(disk),
              dirtyStop |-> FALSE]
    /\ filt = NoFilterCall

NextOneMessage ==
    \E p \in Procs :
        \/ LoopHead(p)
        \/ Send(p)
        \/ Record(p)
        \/ SaveOpen(p)
        \/ SaveDump(p)
        \/ Sleep(p)
        \/ NextMapping(p)

SpecOneMessage == InitOneMessage /\ [][NextOneMessage]_vars

----------------------------------------------------------------------------
(* Two overlapping runs on the same history file, each in process_channel
   for the last mapping with a fetched page of one message; the second
   instance may also be absent *)

TwoPool == { m \in Pool : m.id \in {"b1", "b3"} }

\* an instance whose fetch has returned the page <<m>>
Fetched(m) ==
    [Idle("none", {}) EXCEPT
       !.pc = "load", !.chan = Len(CHANNEL_MAPPING),
       !.messages = [none |-> FALSE, items |-> <<m>>],
       !.touched = {"fetch"}]

InitTwo ==
    /\ disk \in { File({}), File({"u1"}) }
    /\ now = StartTime
    /\ tokens = [discord |-> TRUE, telegram |-> TRUE]
    /\ runs = MaxRuns
    /\ \E m1 \in TwoPool :
          \E second \in {Off} \cup { Fetched(m2) : m2 \in TwoPool } :
             proc = [p \in Procs |-> IF p = 1 THEN Fetched(m1) ELSE second]
    /\ obs = [okSent |-> {}, persisted |-> load_upload_history(disk),
              dirtyStop |-> FALSE]
    /\ filt = NoFilterCall

NextTwo ==
    \E p \in Procs :
        \/ LoadHistory(p)
        \/ LoopHead(p)
        \/ Send(p)
        \/ Record(p)
        \/ SaveOpen(p)
        \/ SaveDump(p)
        \/ Sleep(p)
        \/ NextMapping(p)

SpecTwo == InitTwo /\ [][NextTwo]_vars

----------------------------------------------------------------------------
(* One call of filter_content, for every text and every FILTER_WORDS *)

Texts == UNION { [1..n -> {"a", "A", "b", " "}] : n \in 0..MaxText }

Phrases == UNION { [1..n -> {"a", "b", "B"}] : n \in 1..MaxWordLen }

InitFilter ==
    /\ disk = Unreadable
    /\ now = StartTime
    /\ tokens = [discord |-> TRUE, telegram |-> TRUE]
    /\ runs = 0
    /\ proc = [p \in Procs |-> Off]
    /\ obs = [okSent |-> {}, persisted |-> {}, dirtyStop |-> FALSE]
    /\ \E content \in Texts :
          \E words \in UNION { [1..n -> Phrases] : n \in 0..MaxWords } :
             filt = [NoFilterCall EXCEPT !.content = content, !.words = words]

FilterContent ==
    /\ ~filt.done
    /\ filt' = [filt EXCEPT !.result = filter_content(filt.content, filt.words),
                            !.done = TRUE]
    /\ UNCHANGED <<disk, now, tokens, runs, proc, obs>>

NextFilter == FilterContent

SpecFilter == InitFilter /\ [][NextFilter]_vars

----------------------------------------------------------------------------
(* Properties *)

Running(p) == proc[p].pc \notin {"idle", "off"}

\* the messages of the current page that the loop has already left behind
Examined(p) ==
    IF proc[p].pc \in {"loop", "next"} /\ ~proc[p].messages.none
    THEN { proc[p].messages.items[k] :
             k \in { j \in 1..Len(proc[p].messages.items) : j < proc[p].i } }
    ELSE {}

\* instance p posts a request for the current message in this step
SendsNow(p) ==
    /\ proc[p].pc = "send"
    /\ proc'[p].pc = "record"
    /\ proc'[p].posted # <<>>

\* C1: a run that follows a complete run issues no destination send for a
\* message the complete run sent successfully (whatever the fetches return,
\* so also when they return the same messages).
C1_Idempotent ==
    \A p \in Procs : proc[p].issued \cap proc[p].okPrev = {}

C1_Witness ==
    \E p \in Procs :
        /\ proc[p].exit = "finished"
        /\ \E m \in Examined(p) : m.id \in proc[p].okPrev

NoResendStep ==
    \A p \in Procs : SendsNow(p) => Message(p).id \notin obs.okSent

\* every record that a completed write put in the file is in the file, unless
\* a write is in progress
NoRecordLost ==
    (\A p \in Procs : proc[p].pc # "dump") =>
        obs.persisted \subseteq load_upload_history(disk)

AfterCall(p) == proc[p].pc \in {"record", "save", "dump", "sleep"}

\* C3: a destination send that fails, by a network exception or by the
\* destination rejecting the request, yields (False, []) and records neither
\* the message id nor an image URL.
C3_FailureNeverRecorded ==
    \A p \in Procs :
        (AfterCall(p) /\ proc[p].posted # <<>> /\ proc[p].net # "ok") =>
            /\ ~proc[p].success
            /\ proc[p].sent_items = <<>>
            /\ proc[p].pc # "record" => Message(p).id \notin proc[p].history

\* C4: a message whose id is a key of the history store when it is examined
\* causes no destination send and leaves the history store as it is.
C4_KnownIdSkipped ==
    [][\A p \in Procs :
         (/\ proc[p].pc = "loop"
          /\ InLoop(p)
          /\ "id" \in Message(p).keys
          /\ Message(p).id \in load_upload_history(disk))
         => /\ proc'[p].pc = "loop"
            /\ proc'[p].i = proc[p].i + 1
            /\ proc'[p].issued = proc[p].issued
            /\ proc'[p].history = proc[p].history
            /\ disk' = disk]_vars

C4_Witness ==
    \E p \in Procs :
        \E m \in Examined(p) :
            /\ m.id \in load_upload_history(disk)
            /\ m.id \notin proc[p].issued
            /\ is_within_window(m.timestamp, now)
            /\ m.attachments # <<>>

\* C5: when the fetch for a mapping fails, no send is issued for the mapping,
\* the history store stays as it is, process_channel returns normally and
\* main() goes on to the next mapping in configured order (or ends the run
\* normally after the last one).
C5_FetchFailureIsolated ==
    [][\A p \in Procs :
         proc[p].messages.none =>
            /\ disk' = disk
            /\ proc'[p].issued = proc[p].issued
            /\ \/ /\ proc[p].pc = "check"
                  /\ proc'[p].pc = "next"
                  /\ proc'[p].chan = proc[p].chan
                  /\ proc'[p].messages = proc[p].messages
               \/ /\ proc[p].pc = "next"
                  /\ proc[p].chan < Len(CHANNEL_MAPPING)
                  /\ proc'[p].pc = "fetch"
                  /\ proc'[p].chan = proc[p].chan + 1
               \/ /\ proc[p].pc = "next"
                  /\ proc[p].chan = Len(CHANNEL_MAPPING)
                  /\ proc'[p].pc = "idle"
                  /\ proc'[p].exit = "finished"]_vars

\* the fetch of the first mapping failed and the second mapping is in its loop
C5_Witness ==
    \E p \in Procs :
        /\ 1 \in proc[p].failed
        /\ proc[p].chan = 2
        /\ proc[p].pc = "record"
        /\ proc[p].posted # <<>>
        /\ load_upload_history(disk) = {}

\* C6: no failure after startup lets an exception leave process_channel:
\* every run that got past the token check ends at the run-finished point.
C6_NoExceptionEscapes ==
    \A p \in Procs : proc[p].exit # "raised"

\* the image URLs of the current call that are not keys of the history file;
\* between the call and the save the file is the one the call read
EligibleCount(p) ==
    Cardinality({ k \in 1..Len(proc[p].image_urls) :
                    proc[p].image_urls[k] \notin load_upload_history(disk) })

\* C7: one invocation of the forwarder issues at most one outbound call, and
\* which one is decided by the number of eligible image URLs and the text:
\* 2 or more -> album, 1 -> single image, 0 and text -> text message, 0 and no
\* text -> no call and a not-success result.
C7_StrategySelection ==
    \A p \in Procs :
        proc[p].pc = "record" =>
            LET n == EligibleCount(p)
                posted == proc[p].posted
            IN  /\ Len(posted) <= 1
                /\ n >= 2 => Len(posted) = 1 /\ posted[1].method = "sendMediaGroup"
                                             /\ Len(posted[1].media) = n
                /\ n = 1 => Len(posted) = 1 /\ posted[1].method = "sendPhoto"
                                            /\ Len(posted[1].media) = 1
                /\ (n = 0 /\ proc[p].full_text # "") =>
                        /\ Len(posted) = 1
                        /\ posted[1].method = "sendMessage"
                        /\ posted[1].text = proc[p].full_text
                /\ (n = 0 /\ proc[p].full_text = "") =>
                        posted = <<>> /\ ~proc[p].success

\* an album of two, out of three image URLs of which one is in history
C7_Witness ==
    \E p \in Procs :
        /\ proc[p].pc = "record"
        /\ Len(proc[p].image_urls) = 3
        /\ EligibleCount(p) = 2
        /\ proc[p].full_text = ""
        /\ proc[p].posted # <<>>
        /\ proc[p].posted[1].method = "sendMediaGroup"

\* C8: when the text body is not empty and at least one image is
\* transmitted, the text body is the caption of the first transmitted image
\* and of no other.
C8_CaptionOnFirstTransmitted ==
    \A p \in Procs :
        (/\ proc[p].pc = "record"
         /\ proc[p].full_text # ""
         /\ proc[p].posted # <<>>
         /\ proc[p].posted[1].media # <<>>)
        => LET media == proc[p].posted[1].media
           IN  /\ media[1].caption = <<proc[p].full_text>>
               /\ \A k \in 2..Len(media) : media[k].caption = <<>>

\* now - timestamp < window, for a timestamp that parses
InsideWindow(m) ==
    m.timestamp.iso /\ now - m.timestamp.t < MESSAGE_WINDOW_HOURS * TicksPerHour

\* C9: a message passes the window filter exactly when now - timestamp is
\* strictly less than the window and the timestamp parses; a message that does
\* not pass is skipped without a send and without a change of history.
C9_WindowFilter ==
    /\ [](\A p \in Procs :
            proc[p].pc \in {"send", "record", "save", "dump"} =>
                InsideWindow(Message(p)))
    /\ [][\A p \in Procs :
            (proc[p].pc = "loop" /\ InLoop(p) /\ "id" \in Message(p).keys) =>
                /\ ~InsideWindow(Message(p)) =>
                      /\ proc'[p].pc = "loop"
                      /\ proc'[p].i = proc[p].i + 1
                      /\ proc'[p].issued = proc[p].issued
                      /\ proc'[p].history = proc[p].history
                      /\ disk' = disk
                /\ (InsideWindow(Message(p)) /\ Message(p).id \notin proc[p].history)
                      => proc'[p].pc = "send"]_vars

\* a message exactly one window old has been skipped
C9_Witness ==
    \E p \in Procs :
        \E m \in Examined(p) :
            /\ m.timestamp.iso
            /\ now - m.timestamp.t = MESSAGE_WINDOW_HOURS * TicksPerHour
            /\ m.id \notin load_upload_history(disk)
            /\ m.id \notin proc[p].issued

\* C10: with a platform token missing, main() fetches nothing, sends nothing
\* and neither reads nor writes the history file.
C10_MissingTokens ==
    ~(tokens.discord /\ tokens.telegram) =>
        \A p \in Procs :
            /\ ~Running(p)
            /\ proc[p].touched = {}
            /\ proc[p].issued = {}
            /\ obs.okSent = {}

C10_Witness ==
    /\ tokens.discord
    /\ ~tokens.telegram
    /\ \E p \in Procs : proc[p].exit = "fatal" /\ runs = MaxRuns

\* phrase occurs in text, ignoring case
Occurs(text, phrase) == \E i \in 1..Len(text) : MatchAt(text, phrase, i)

\* C11: the result of filter_content contains no occurrence, in any case, of a
\* banned phrase, also when a removal joins the characters around it into a
\* new occurrence.
C11_NoBannedPhraseLeft ==
    filt.done =>
        \A k \in 1..Len(filt.words) : ~Occurs(filt.result, filt.words[k])

\* the keys the file holds; none when it cannot be read
DiskKeys == IF disk.valid THEN disk.keys ELSE {}

\* the image URLs in the request that the current call posted
PostedUrls(p) ==
    IF proc[p].posted = <<>> THEN {}
    ELSE { proc[p].posted[1].media[k].media :
             k \in 1..Len(proc[p].posted[1].media) }

\* the keys the file can hold before the first run
InitialKeys == UNION InitialHistories

\* the keys a successful send of message m puts in history
KeysOf(m) == {m.id} \cup Range(ImageUrls(m.attachments))

\* the keys that some successful send accounts for
AccountedKeys == UNION { KeysOf(m) : m \in { x \in Pool : x.id \in obs.okSent } }

\* C12: after a successful send the history holds the message id and every
\* image URL of the send, and the file holds them before the next message is
\* examined; no key enters the history except by such a send.
C12_RecordedOnSuccessOnly ==
    /\ \A p \in Procs :
          (proc[p].pc \in {"save", "dump", "sleep"} /\ proc[p].success) =>
              {Message(p).id} \cup PostedUrls(p) \subseteq proc[p].history
    /\ \A p \in Procs :
          (proc[p].pc = "sleep" /\ proc[p].success) =>
              {Message(p).id} \cup PostedUrls(p) \subseteq DiskKeys
    /\ DiskKeys \subseteq InitialKeys \cup AccountedKeys
    /\ \A p \in Procs : proc[p].history \subseteq InitialKeys \cup AccountedKeys

C12_Witness ==
    \E p \in Procs :
        /\ proc[p].pc = "sleep"
        /\ proc[p].success
        /\ Cardinality(PostedUrls(p)) >= 2
        /\ ({Message(p).id} \cup PostedUrls(p)) \cap InitialKeys = {}

\* the image URLs in the request that the current call posted, in order
PostedUrlSeq(p) ==
    IF proc[p].posted = <<>> THEN <<>>
    ELSE [k \in 1..Len(proc[p].posted[1].media) |->
             proc[p].posted[1].media[k].media]

\* C13: on success the reported list of image URLs is the list of image URLs
\* of the outbound call, in order: no URL skipped as already in history, and
\* empty for the text-message branch.
C13_ReportsWhatWasPosted ==
    \A p \in Procs :
        (proc[p].pc = "record" /\ proc[p].success) =>
            proc[p].sent_items = PostedUrlSeq(p)

\* C14: an image URL that is a key of the history file when send_to_telegram
\* is called is not in the outbound call, in any message of any run.
C14_RecordedUrlNotPosted ==
    [][\A p \in Procs : SendsNow(p) => PostedUrls(p)' \cap DiskKeys = {}]_vars

\* a URL recorded by an earlier send of this execution has been left out of
\* the request of a later message
C14_Witness ==
    \E p \in Procs :
        /\ proc[p].pc = "record"
        /\ proc[p].i = 2
        /\ proc[p].messages.items[1].id \in proc[p].okCur
        /\ PostedUrls(p) # {}
        /\ \E u \in Range(proc[p].image_urls) :
              /\ u \in DiskKeys
              /\ u \notin PostedUrls(p)
              /\ u \in KeysOf(proc[p].messages.items[1])

\* C15: with one instance, the history used for the dedup test of each
\* message equals what the file holds, and after each message that reached
\* the forwarder the file holds the in-memory history, whether or not the
\* send succeeded.
C15_HistoryInStepWithFile ==
    \A p \in Procs :
        /\ (proc[p].pc = "loop" /\ InLoop(p)) => proc[p].history = DiskKeys
        /\ proc[p].pc = "sleep" => (disk.valid /\ disk.keys = proc[p].history)

\* the second message of a page, after a first one was recorded and the send
\* of the second failed
C15_Witness ==
    \E p \in Procs :
        /\ proc[p].pc = "sleep"
        /\ proc[p].i = 2
        /\ proc[p].posted # <<>>
        /\ ~proc[p].success
        /\ proc[p].messages.items[1].id \in proc[p].history
        /\ proc[p].messages.items[1].id \notin InitialKeys

\* the messages of the current page for which a request has been posted
SentOfPage(p) ==
    { k \in 1..Len(proc[p].messages.items) :
        proc[p].messages.items[k].id \in proc[p].issued }

\* C16: within a mapping the sends are issued in non-decreasing order of the
\* messages' timestamps; a run moves from a mapping only to the next one, by
\* a fetch for it after process_channel has returned, and every fetched page
\* and every send belongs to the mapping the run is at.
C16_Ordering ==
    /\ [](\A p \in Procs :
            \A k \in 1..Len(proc[p].messages.items) :
                proc[p].messages.items[k].channel = CHANNEL_MAPPING[proc[p].chan])
    /\ [][\A p \in Procs :
            /\ SendsNow(p) =>
                  \A k \in SentOfPage(p) :
                      proc[p].messages.items[k].timestamp.t
                          <= Message(p).timestamp.t
            /\ (Running(p) /\ Running(p)' /\ proc'[p].chan # proc[p].chan) =>
                  /\ proc[p].pc = "next"
                  /\ proc'[p].pc = "fetch"
                  /\ proc'[p].chan = proc[p].chan + 1]_vars

\* in the second mapping, a later message sent after an earlier one, after a
\* send in the first mapping
C16_Witness ==
    \E p \in Procs :
        /\ proc[p].pc = "record"
        /\ proc[p].chan = 2
        /\ proc[p].i = 2
        /\ proc[p].posted # <<>>
        /\ proc[p].messages.items[1].id \in proc[p].issued
        /\ proc[p].messages.items[1].timestamp.t < Message(p).timestamp.t
        /\ \E m \in Pool : m.channel = "A" /\ m.id \in proc[p].issued

\* C17: with one instance no persisted record is lost and no message is sent
\* twice; with two overlapping runs a state is reachable in which the
\* overwrite by one has discarded a record written by the other.
C17_SafeWithOneInstance ==
    /\ [](proc[2].pc = "off" => NoRecordLost)
    /\ [][proc[2].pc = "off" => NoResendStep]_vars

\* both instances have finished their writes and a key that had been written
\* to the file is no longer in it
C17_Witness ==
    /\ \A p \in Procs : proc[p].pc \in {"sleep", "loop", "next", "idle"}
    /\ \A p \in Procs : proc[p].okCur # {}
    /\ disk.valid
    /\ ~(obs.persisted \subseteq disk.keys)

\* both instances have posted a request for the same message
C17_SentTwice ==
    /\ proc[1].issued # {}
    /\ proc[1].issued = proc[2].issued

\* C18: with one instance, what save_upload_history writes holds every key
\* the file held before the write, so the keys of the file never shrink from
\* one completed write to the next, over messages, mappings and runs (a write
\* that raises leaves the file cut short and ends the run).
C18_KeysNeverShrink ==
    /\ [](\A p \in Procs : proc[p].pc = "save" => DiskKeys \subseteq proc[p].history)
    /\ [](~obs.dirtyStop => NoRecordLost)
    /\ [][\A p \in Procs :
            /\ (proc[p].pc = "save" /\ proc'[p].pc = "dump") =>
                  proc'[p].history = proc[p].history
            /\ (proc[p].pc = "dump" /\ proc'[p].pc = "sleep") =>
                  (disk'.valid /\ disk'.keys = proc[p].history)]_vars

\* in a second run, the write after a failed send still holds what the first
\* run recorded
C18_Witness ==
    /\ ~obs.dirtyStop
    /\ \E p \in Procs :
          /\ proc[p].exit = "finished"
          /\ proc[p].pc = "sleep"
          /\ proc[p].posted # <<>>
          /\ ~proc[p].success
          /\ proc[p].okPrev # {}
          /\ proc[p].okPrev \subseteq DiskKeys

\* message m has an empty text body and no image URL outside the history file
NothingToSend(m) ==
    m.text = "" /\ Range(ImageUrls(m.attachments)) \subseteq DiskKeys

\* C19: a message inside the window with an empty text body and no eligible
\* image causes no outbound call and is not recorded; not being recorded, it
\* reaches the forwarder again, still without a call, whenever it is fetched
\* inside the window.
C19_NothingToSend ==
    /\ [](\A p \in Procs :
            (proc[p].pc \in {"save", "dump", "sleep"} /\ proc[p].posted = <<>>) =>
                /\ Message(p).id \notin proc[p].history
                /\ Message(p).id \notin DiskKeys
                /\ Message(p).id \notin obs.okSent)
    /\ [][\A p \in Procs :
            /\ (proc[p].pc = "send" /\ NothingToSend(Message(p))) =>
                  /\ proc'[p].pc = "record"
                  /\ proc'[p].posted = <<>>
                  /\ ~proc'[p].success
                  /\ proc'[p].issued = proc[p].issued
                  /\ obs' = obs
                  /\ disk' = disk
            /\ (/\ proc[p].pc = "loop"
                /\ InLoop(p)
                /\ "id" \in Message(p).keys
                /\ NothingToSend(Message(p))
                /\ InsideWindow(Message(p))
                /\ Message(p).id \notin obs.okSent \cup InitialKeys) =>
                  proc'[p].pc = "send"]_vars

\* in a run after a complete run, such a message has gone through the
\* forwarder without a call
C19_Witness ==
    \E p \in Procs :
        /\ proc[p].exit = "finished"
        /\ proc[p].pc = "sleep"
        /\ proc[p].full_text = ""
        /\ proc[p].posted = <<>>
        /\ Message(p).id \notin DiskKeys

====
